---- MODULE Spec2Model ----
(***************************************************************************)
(* A model of simple-validator (src/src/index.ts): the per-field chain of  *)
(* checks (Validators.validate), the result normalizer                     *)
(* (valResultToPromise) and the object-level orchestrator                  *)
(* (_validateObject) behind newObjectValidator.                            *)
(*                                                                         *)
(* One action is one synchronous block of JavaScript: the orchestrator     *)
(* call (the launch loop, the key trimming, the registration of the        *)
(* aggregation callbacks), the completion of one pending check (its        *)
(* continuation runs the rest of the chain until the next pending check),  *)
(* and each aggregation callback.  Promise reactions of different promises *)
(* may run in any order.                                                   *)
(***************************************************************************)
EXTENDS Integers, Sequences, FiniteSets, TLC

\* ------------------------------------------------------------------------
\* Bounds of the model
\* ------------------------------------------------------------------------

\* Number of validation runs of the same validator the model follows.
MaxRuns == 2

\* Longest chain of checks a schema field carries.
MaxChainLen == 2

Runs == 1..MaxRuns

\* The field names a schema may declare, and the keys an input may hold.
Fields == {"a", "b"}
Keys == Fields \cup {"extra"}

\* ------------------------------------------------------------------------
\* JavaScript values held by the input object
\* ------------------------------------------------------------------------

\* A string is the sequence of its characters; the other values carry none.
JsString(s) == [t |-> "string", s |-> s]
JsNull == [t |-> "null", s |-> <<>>]
JsUndefined == [t |-> "undefined", s |-> <<>>]
JsNumber(n) == [t |-> "number", s |-> <<n>>]
JsBoolean(b) == [t |-> "boolean", s |-> <<b>>]
\* An object held under a key of the input: s names it, and two values are
\* the same object iff they carry the same name.
JsObject(name) == [t |-> "object", s |-> <<name>>]

\* The properties of the objects an input may hold under a key.
Nested(name) ==
    IF name = "o" THEN [k \in {"x", "n"} |-> IF k = "x" THEN JsString(<<"A">>) ELSE JsNull]
    ELSE [k \in {} |-> JsNull]

\* obj[key]: a missing key reads as undefined.
Get(o, key) == IF key \in DOMAIN o THEN o[key] ELSE JsUndefined

\* obj[key] = value
Put(o, key, value) == [k \in DOMAIN o \cup {key} |-> IF k = key THEN value ELSE o[k]]

\* value[key] for a value that is not undefined or null: a property of an
\* object it holds, and undefined on a string, a number or a boolean (for
\* the keys the model uses, which name no property of those).
Prop(value, key) == IF value.t = "object" THEN Get(Nested(value.s[1]), key) ELSE JsUndefined

\* !value for the values above
Falsy(value) ==
    \/ value.t \in {"null", "undefined"}
    \/ value = JsString(<<>>)
    \/ value = JsNumber("0")
    \/ value = JsBoolean("false")

IsSpace(c) == c = " "

RECURSIVE TrimLeft(_)
TrimLeft(s) == IF s # <<>> /\ IsSpace(Head(s)) THEN TrimLeft(Tail(s)) ELSE s

RECURSIVE TrimRight(_)
TrimRight(s) ==
    IF s # <<>> /\ IsSpace(s[Len(s)]) THEN TrimRight(SubSeq(s, 1, Len(s) - 1)) ELSE s

\* A bug Trim could have: one space taken off each end.
TrimOne(s) ==
    LET t == IF s # <<>> /\ IsSpace(Head(s)) THEN Tail(s) ELSE s
    IN IF t # <<>> /\ IsSpace(t[Len(t)]) THEN SubSeq(t, 1, Len(t) - 1) ELSE t

\* String.prototype.trim
Trim(s) == TrimRight(TrimLeft(s))

UpperChar(c) == IF c = "a" THEN "A" ELSE c
LowerChar(c) == IF c = "A" THEN "a" ELSE c

\* String.prototype.toUpperCase / toLowerCase over the alphabet
\* {" ", "a", "A", "1", "#"}
ToUpperCase(s) == [i \in 1..Len(s) |-> UpperChar(s[i])]
ToLowerCase(s) == [i \in 1..Len(s) |-> LowerChar(s[i])]

\* String(value), as RegExp.prototype.test coerces its argument.
StringOf(value) ==
    CASE value.t = "string" -> value.s
      [] value.t = "number" -> value.s
      [] value.t = "boolean" ->
           IF value.s[1] = "true" THEN <<"t", "r", "u", "e">> ELSE <<"f", "a", "l", "s", "e">>
      [] value.t = "null" -> <<"n", "u", "l", "l">>
      [] value.t = "undefined" -> <<"u", "n", "d", "e", "f", "i", "n", "e", "d">>
      [] value.t = "object" -> <<"[", "o", "b", "j", "e", "c", "t", " ", "O", "b", "j", "e", "c", "t", "]">>

\* s contains the characters of w, in a row.
Contains(s, w) ==
    \E k \in 0..(Len(s) - Len(w)) : \A j \in 1..Len(w) : s[k + j] = w[j]

\* new RegExp(w).test(s) and new RegExp(w, "i").test(s) for a pattern w made
\* of plain characters.
RegExpTest(w, ignoreCase, s) ==
    IF ignoreCase THEN Contains(ToLowerCase(s), ToLowerCase(w)) ELSE Contains(s, w)

\* The character classes of password, over the alphabet above:
\* /[A-Z]+/, /[a-z]+/, /[0-9]+/ and the class of the special characters,
\* which holds the space.
CharClass(class) ==
    CASE class = "upper" -> {"A"}
      [] class = "lower" -> {"a"}
      [] class = "number" -> {"0", "1"}
      [] class = "special" -> {" ", "#"}

\* ------------------------------------------------------------------------
\* Values returned by checks and carried by promises
\* ------------------------------------------------------------------------

\* true, false, a string, the object {field, msg}, an Error, undefined.
\* msg is the sequence of the pieces the code concatenates.
True == [t |-> "true", field |-> "", msg |-> <<>>]
False == [t |-> "false", field |-> "", msg |-> <<>>]
Str(m) == [t |-> "string", field |-> "", msg |-> m]
ValError(f, m) == [t |-> "ValError", field |-> f, msg |-> m]
Error(m) == [t |-> "Error", field |-> "", msg |-> m]
Undefined == [t |-> "undefined", field |-> "", msg |-> <<>>]

\* What an expression evaluates to: a plain value, a promise in one of its
\* three states, or an exception thrown.
Val(v) == [k |-> "value", v |-> v]
Fulfilled(v) == [k |-> "fulfilled", v |-> v]
Rejected(e) == [k |-> "rejected", v |-> e]
\* A pending promise carries the name of what its operation will do.
Pending(behaviour) == [k |-> "pending", v |-> Str(<<behaviour>>)]
Throw(e) == [k |-> "throw", v |-> e]

IsPromise(x) == x.k \in {"fulfilled", "rejected", "pending"}

NotImplemented(type) == Error(<<"Not implemented for type ", type>>)

\* ------------------------------------------------------------------------
\* Result normalizer
\* ------------------------------------------------------------------------

\* valResultToPromise(valResult, field): a promise is returned as it is (its
\* resolution is not mapped), an Error becomes a rejection, a boolean or a
\* string becomes a fulfilled promise, anything else throws.
valResultToPromise(valResult, field) ==
    IF IsPromise(valResult) THEN valResult
    ELSE IF valResult.v.t = "Error" THEN Rejected(valResult.v)
    ELSE IF valResult.v.t = "true" THEN Fulfilled(True)
    ELSE IF valResult.v.t = "false" THEN Fulfilled(ValError(field, <<>>))
    ELSE IF valResult.v.t = "string" THEN Fulfilled(ValError(field, valResult.v.msg))
    ELSE Throw(NotImplemented(IF valResult.v.t = "undefined" THEN "undefined" ELSE "object"))

\* ------------------------------------------------------------------------
\* Checks
\* ------------------------------------------------------------------------

\* A check as the fluent builder stores it: its kind, its options (the
\* isString flags, the sameAs path split at "/", the behaviour of a user
\* function) and options.msg (<<>> when absent or empty).
Check(kind, opt, msg) == [kind |-> kind, opt |-> opt, msg |-> msg]

InSeq(x, s) == \E i \in 1..Len(s) : s[i] = x

\* options.msg || ctx.path + text
Message(c, default) == IF c.msg # <<>> THEN c.msg ELSE default

\* What one invocation of nextValidatorCall leaves: the value returned, the
\* object, the index i, and the checks invoked so far.
Ret(x, o, i, tr) == [x |-> x, obj |-> o, i |-> i, tr |-> tr]

\* A bug isStringValue could have: the case folded, the trimming forgotten.
isStringValueUntrimmed(c, value) ==
    JsString(IF InSeq("upper", c.opt) THEN ToUpperCase(value.s)
             ELSE IF InSeq("lower", c.opt) THEN ToLowerCase(value.s)
             ELSE value.s)

\* isString: the value written back for a non-empty string.
isStringValue(c, value) ==
    LET trimmed == IF InSeq("trim", c.opt) THEN Trim(value.s) ELSE value.s
        cased == IF InSeq("upper", c.opt) THEN ToUpperCase(trimmed)
                 ELSE IF InSeq("lower", c.opt) THEN ToLowerCase(trimmed)
                 ELSE trimmed
    IN JsString(cased)

\* A bug requiredFails could have: if (!value).
requiredFailsFalsy(value) == Falsy(value)

\* required: value === null || value === undefined || value === ''
requiredFails(value) == value.t \in {"null", "undefined"} \/ value = JsString(<<>>)

\* A bug sameAsPath could have: the "$/" left in the path.
sameAsPathWhole(c) == c.opt

\* sameAs: the path starts at ctx.root when it begins with "$/".  root and
\* current are the same object in a flat run.
sameAsPath(c) ==
    IF Len(c.opt) >= 2 /\ c.opt[1] = "$" THEN Tail(c.opt) ELSE c.opt

\* sameAs: the rest of the walk, from what the last segment read.
RECURSIVE Walk(_, _)
Walk(current, path) ==
    IF current.t \in {"undefined", "null"} THEN JsNull
    ELSE IF path = <<>> THEN current
    ELSE Walk(Prop(current, Head(path)), Tail(path))

\* sameAs: the walk along the path, from the object of the run.
sameAsTarget(c, o) ==
    LET path == sameAsPath(c)
    IN Walk(Get(o, path[1]), Tail(path))

\* password: pattern.test(value) for one entry of req.  A keyword names its
\* class; any other entry (one plain character here) is new RegExp(val, "i").
CharsetTest(entry, s) ==
    IF entry \in {"upper", "lower", "number", "special"}
    THEN \E k \in 1..Len(s) : s[k] \in CharClass(entry)
    ELSE RegExpTest(<<entry>>, TRUE, s)

\* A bug passwordAccepts could have: one matching charset is enough.
passwordAcceptsAnyCharset(c, value) ==
    /\ value.t = "string"
    /\ Len(value.s) >= c.minLength /\ Len(value.s) <= c.maxLength
    /\ c.opt # <<>> => \E k \in 1..Len(c.opt) : CharsetTest(c.opt[k], value.s)

\* password: the value is a string, of a length within the bounds, that
\* every charset matches.
passwordAccepts(c, value) ==
    /\ value.t = "string"
    /\ Len(value.s) >= c.minLength /\ Len(value.s) <= c.maxLength
    /\ \A k \in 1..Len(c.opt) : CharsetTest(c.opt[k], value.s)

\* What a user function passed to func, or registered as a custom check,
\* returns without calling next.
UserReturn(behaviour) ==
    CASE behaviour = "true" -> Val(True)
      [] behaviour = "false" -> Val(False)
      [] behaviour = "string" -> Val(Str(<<"bad">>))
      [] behaviour = "error" -> Val(Error(<<"fault">>))
      [] behaviour = "undefined" -> Val(Undefined)
      [] behaviour = "throw" -> Throw(Error(<<"thrown">>))
      [] OTHER -> Pending(behaviour)

\* The behaviours that return a pending promise.
AsyncBehaviours ==
    {"asyncTrue", "asyncFalse", "asyncString", "asyncError", "asyncUndefined",
     "asyncNext", "asyncReject", "asyncNever"}

RECURSIVE nextValidatorCall(_, _, _, _, _, _)

\* A bug ReadValue could have: the value validate was called with, read
\* once when the chain was launched (what its first check was given).
ReadValueAtLaunch(o, field, tr) == IF tr = <<>> THEN Get(o, field) ELSE tr[1].value

\* ctx.current[field], evaluated at each call of validators[i++] on the
\* object as it then is; tr holds the calls made before.
ReadValue(o, field, tr) == Get(o, field)

\* validators[i++](ctx, ctx.current[field], field, nextValidatorCall), for
\* the check c with i already incremented.
Invoke(c, validators, i, o, field, path, tr) ==
    LET value == ReadValue(o, field, tr)
        seen == Append(tr, [pos |-> i, field |-> field, value |-> value])
        next(o2) == nextValidatorCall(validators, i, o2, field, path, seen)
        stop(x) == Ret(x, o, i, seen)
    IN CASE c.kind = "required" ->
              IF requiredFails(value)
              THEN stop(Val(Str(Message(c, <<path, " is required">>))))
              ELSE next(o)
         [] c.kind = "isString" ->
              IF value.t \in {"undefined", "null", "string"}
              THEN IF Falsy(value) THEN next(o)
                   ELSE next(Put(o, field, isStringValue(c, value)))
              ELSE stop(Val(Str(Message(c, <<path, " must be a string.">>))))
         [] c.kind = "sameAs" ->
              LET current == sameAsTarget(c, o)
              IN IF value.t \in {"undefined", "null"} /\ current = JsNull THEN next(o)
                 ELSE IF value = current THEN next(o)
                 ELSE stop(Val(Str(Message(c, <<path, " is not same as ">> \o c.opt))))
         [] c.kind = "regex" ->
              IF RegExpTest(c.opt, FALSE, StringOf(value)) THEN next(o)
              ELSE stop(Val(Str(Message(c, <<path, " is invalid.">>))))
         [] c.kind = "password" ->
              IF passwordAccepts(c, value) THEN next(o)
              ELSE stop(Val(Str(Message(c, <<path, " is invalid.">>))))
         [] c.kind = "custom" ->
              IF c.opt[1] = "next" THEN next(o) ELSE stop(UserReturn(c.opt[1]))
         [] c.kind = "notAFunction" ->
              stop(Throw(Error(<<c.opt[1], " is not a function">>)))
         [] c.kind = "func" ->
              LET r == IF c.opt[1] = "next" THEN next(o) ELSE stop(UserReturn(c.opt[1]))
              IN IF r.x.k = "throw" THEN r
                 ELSE [r EXCEPT !.x = valResultToPromise(r.x, path)]

\* A bug nextValidatorCall could have: the bound tested one too early, so
\* that the last check is never invoked.
nextValidatorCallOffByOne(validators, i, o, field, path, tr) ==
    IF i >= Len(validators) - 1 THEN Ret(Val(True), o, i, tr)
    ELSE Invoke(validators[i + 1], validators, i + 1, o, field, path, tr)

\* nextValidatorCall with the index at i.
nextValidatorCall(validators, i, o, field, path, tr) ==
    IF i >= Len(validators) THEN Ret(Val(True), o, i, tr)
    ELSE Invoke(validators[i + 1], validators, i + 1, o, field, path, tr)

\* A bug Executor could have: a catch that drops the exception, so that
\* the promise rejects with what valResultToPromise(undefined) throws.
ExecutorSwallow(x, field) ==
    LET p == valResultToPromise(IF x.k = "throw" THEN Val(Undefined) ELSE x, field)
    IN IF p.k = "throw" THEN Rejected(p.v) ELSE p

\* The promise executor of validate once nextValidatorCall returned x
\* (or threw): a throw rejects the promise with the exception; the call of
\* valResultToPromise(undefined) that follows throws into a settled promise.
Executor(x, field) ==
    IF x.k = "throw" THEN Rejected(x.v)
    ELSE LET p == valResultToPromise(x, field)
         IN IF p.k = "throw" THEN Rejected(p.v) ELSE p

\* A bug validate could have: true returned by a check that is not the
\* last taken for a call of proceed.
RECURSIVE AutoProceed(_, _, _, _)
AutoProceed(validators, c, field, path) ==
    IF c.x \in {Val(True), Fulfilled(True)} /\ c.i < Len(validators)
    THEN AutoProceed(validators,
                     nextValidatorCall(validators, c.i, c.obj, field, path, c.tr),
                     field, path)
    ELSE c

validateAutoProceed(validators, o, field, path) ==
    IF Len(validators) = 0 THEN Ret(Fulfilled(True), o, 0, <<>>)
    ELSE LET c == AutoProceed(validators,
                              nextValidatorCall(validators, 0, o, field, path, <<>>),
                              field, path)
         IN [c EXCEPT !.x = Executor(c.x, field)]

\* Validators.validate(ctx, value, field)
validate(validators, o, field, path) ==
    IF Len(validators) = 0 THEN Ret(Fulfilled(True), o, 0, <<>>)
    ELSE LET c == nextValidatorCall(validators, 0, o, field, path, <<>>)
         IN [c EXCEPT !.x = Executor(c.x, field)]

\* A promise resolved with what an expression gave: a value fulfils it, a
\* promise is adopted, an exception in the callback rejects it.
Resolve(x) ==
    IF x.k = "value" THEN Fulfilled(x.v)
    ELSE IF x.k = "throw" THEN Rejected(x.v)
    ELSE x

\* The continuation of a pending user check when its operation completes:
\* the promise the check returned is resolved with a value, rejected, or
\* resolved with what next() returns (somePromise.then(() => next())).
Continuation(behaviour, validators, i, o, field, path, tr) ==
    CASE behaviour = "asyncTrue" -> Ret(Fulfilled(True), o, i, tr)
      [] behaviour = "asyncFalse" -> Ret(Fulfilled(False), o, i, tr)
      [] behaviour = "asyncString" -> Ret(Fulfilled(Str(<<"bad">>)), o, i, tr)
      [] behaviour = "asyncError" -> Ret(Fulfilled(Error(<<"fault">>)), o, i, tr)
      [] behaviour = "asyncUndefined" -> Ret(Fulfilled(Undefined), o, i, tr)
      [] behaviour = "asyncReject" -> Ret(Rejected(Error(<<"rejected">>)), o, i, tr)
      [] behaviour = "asyncNext" ->
           LET c == nextValidatorCall(validators, i, o, field, path, tr)
           IN [c EXCEPT !.x = Resolve(c.x)]

\* ------------------------------------------------------------------------
\* State
\* ------------------------------------------------------------------------

VARIABLES
    schema,       \* the schema: declared field -> what it holds
    order,        \* per run, the declaration order of the schema it is given
    config,       \* the config given to newObjectValidator
    input,        \* the value every run's object starts structurally equal to
    overlap,      \* whether the caller starts a run while another is under way
    object,       \* per run, the object being validated (ctx.root = ctx.current)
    validations,  \* per run and field, the promise pushed on validations
    index,        \* the index i of each invocation of validate
    invoked,      \* per run and field, the checks invoked so far, in order
    reaction,     \* per run and field, where v.then(...).catch(rej) stands
    count,        \* per run, the i of _validateObject
    errors,       \* per run, the errors object of _validateObject
    runState,     \* per run, the state of the promise _validateObject returns
    runResult,    \* per run, the ValidationResult it resolved with
    runFault,     \* per run, what it rejected with
    emitted,      \* per run, how many times res was called
    caller,       \* how the caller uses the library: the factory, what it passes
    builder,      \* the calls made on the chain of field a, and the last one
    validator,    \* what the factory returned, or that it threw
    handler,      \* per run, the callbacks the middleware registered and called
    contextErrors \* per run, the errors object of the Context made for the run

vars == <<schema, order, config, input, overlap, object, validations, index,
          invoked, reaction, count, errors, runState, runResult, runFault, emitted,
          caller, builder, validator, handler, contextErrors>>

NoPromise == [k |-> "none", v |-> Undefined]
NoErrors == [k \in {} |-> Undefined]
NoResult == [success |-> FALSE, hasErrors |-> FALSE, errors |-> NoErrors]
EmptyObject == [k \in {} |-> JsUndefined]

\* The middleware of a run before its handler is called.
NoHandler ==
    [stage |-> "none", onSuccess |-> 0, onError |-> 0, result |-> NoResult,
     error |-> Undefined, status |-> 0, next |-> 0]

\* ------------------------------------------------------------------------
\* Orchestrator
\* ------------------------------------------------------------------------

\* newObjectValidator: a missing config is {trimBody: true}.
TrimBody(cfg) == cfg \in {"none", "on"}

\* context.path = context.path + field, with ctx.path = ''.
ContextPath(field) == field

\* A bug ValidatorsAfter could have: each check taken off the list as it is
\* invoked (this.validators.shift()).
ValidatorsShifted(validators, i) == SubSeq(validators, i + 1, Len(validators))

\* this.validators of a chain once an invocation of validate has advanced
\* its index to i: validators[i++] reads the list, and neither validate nor
\* a check writes it.
ValidatorsAfter(validators, i) == validators

\* A bug IndexCell could have: the index kept on the Chain object, which the
\* invocations for every run and field declared with it share.
IndexOnChain(r, f) == <<1, "a">>

\* Where the index of the invocation of validate for run r, field f lives:
\* a variable of the executor's closure, one per invocation.
IndexCell(r, f) == <<r, f>>

\* A bug SpliceKey could have: the matched key stays in keys.
SpliceNothing(keys, field) == keys

\* keys.splice(keyIndex, 1)
SpliceKey(keys, field) == keys \ {field}

\* A bug TrimKeys could have: the keys found but never deleted.
TrimKeysNever(o, keys, cfg) == o

\* keys.forEach(key => delete ctx.current[key]) when trimming is on.
TrimKeys(o, keys, cfg) ==
    IF TrimBody(cfg) /\ keys # {} THEN [k \in DOMAIN o \ keys |-> o[k]] ELSE o

\* try { result = schemaVal.validate(...) } catch (err) { result = err }
TryValidate(x) == IF x.k = "throw" THEN Val(x.v) ELSE x

\* The launch loop of _validateObject over the fields left to visit.  acc
\* holds the object, the keys not yet matched, the promises pushed, the
\* indexes, the checks invoked, and whether the loop threw.
RECURSIVE Launch(_, _, _)

\* A bug Launch could have: the loop waits for the chain it launched, so
\* that a pending chain keeps the fields after it from starting.
LaunchAwaiting(r, fields, acc) ==
    IF fields = <<>> \/ acc.threw \/ \E f \in Fields : acc.v[f].k = "pending" THEN acc
    ELSE LET field == Head(fields)
             schemaVal == schema[field]
             keys == SpliceKey(acc.keys, field)
         IN IF schemaVal.type = "falsy"
            THEN Launch(r, Tail(fields), [acc EXCEPT !.keys = keys])
            ELSE IF schemaVal.type = "Validators"
            THEN LET c == validate(schemaVal.checks, acc.obj, field, ContextPath(field))
                 IN Launch(r, Tail(fields),
                        [acc EXCEPT !.keys = keys,
                                    !.obj = c.obj,
                                    !.v[field] = valResultToPromise(TryValidate(c.x), ContextPath(field)),
                                    !.idx[IndexCell(r, field)] = c.i,
                                    !.tr[field] = c.tr])
            ELSE [acc EXCEPT !.keys = keys, !.threw = TRUE]

\* A bug Launch could have: a field whose schema value is falsy skipped
\* before its key is taken off keys.
LaunchSkipEarly(r, fields, acc) ==
    IF fields = <<>> \/ acc.threw THEN acc
    ELSE LET field == Head(fields)
             schemaVal == schema[field]
             keys == SpliceKey(acc.keys, field)
         IN IF schemaVal.type = "falsy"
            THEN Launch(r, Tail(fields), acc)
            ELSE IF schemaVal.type = "Validators"
            THEN LET c == validate(schemaVal.checks, acc.obj, field, ContextPath(field))
                 IN Launch(r, Tail(fields),
                        [acc EXCEPT !.keys = keys,
                                    !.obj = c.obj,
                                    !.v[field] = valResultToPromise(TryValidate(c.x), ContextPath(field)),
                                    !.idx[IndexCell(r, field)] = c.i,
                                    !.tr[field] = c.tr])
            ELSE [acc EXCEPT !.keys = keys, !.threw = TRUE]

Launch(r, fields, acc) ==
    IF fields = <<>> \/ acc.threw THEN acc
    ELSE LET field == Head(fields)
             schemaVal == schema[field]
             keys == SpliceKey(acc.keys, field)
         IN IF schemaVal.type = "falsy"
            THEN Launch(r, Tail(fields), [acc EXCEPT !.keys = keys])
            ELSE IF schemaVal.type = "Validators"
            THEN LET c == validate(schemaVal.checks, acc.obj, field, ContextPath(field))
                 IN Launch(r, Tail(fields),
                        [acc EXCEPT !.keys = keys,
                                    !.obj = c.obj,
                                    !.v[field] = valResultToPromise(TryValidate(c.x), ContextPath(field)),
                                    !.idx[IndexCell(r, field)] = c.i,
                                    !.tr[field] = c.tr])
            ELSE [acc EXCEPT !.keys = keys, !.threw = TRUE]

\* A bug AllSettled could have: res as soon as one chain settled.
AnySettled(i, l) == i >= 1

\* if (i >= l)
AllSettled(i, l) == i >= l

\* (<ValError>val).field as a key of errors: a property a boolean, a string
\* or an Error does not have reads as undefined.
ErrorKey(val) == IF val.t = "ValError" THEN val.field ELSE "undefined"

\* Bugs Collect could have: an entry only while errors is empty, and an
\* errors object made anew for each entry.
CollectFirst(errs, val) == IF DOMAIN errs # {} THEN errs ELSE Put(errs, ErrorKey(val), val)
CollectLast(errs, val) == Put(NoErrors, ErrorKey(val), val)

\* errors[val.field] = val
Collect(errs, val) == Put(errs, ErrorKey(val), val)

\* The ValidationResult res is called with.
ValidationResult(errs) ==
    IF DOMAIN errs # {}
    THEN [success |-> FALSE, hasErrors |-> TRUE, errors |-> errs]
    ELSE [success |-> TRUE, hasErrors |-> FALSE, errors |-> NoErrors]

\* A bug Launched could have: l counted, when a callback runs, over the
\* chains that have settled by then.
LaunchedSettled(r) == {f \in Fields : validations[r][f].k \in {"fulfilled", "rejected"}}

\* The chains pushed on validations (l = validations.length).
Launched(r) == {f \in Fields : validations[r][f].k # "none"}

\* What the pending promise of run r, field f waits on.
Awaited(r, f) == validations[r][f].v.msg[1]

\* A bug CanComplete could have: the chains still pending cancelled once
\* the run has settled.
CanCompleteUntilSettled(r, f) ==
    /\ validations[r][f].k = "pending"
    /\ Awaited(r, f) # "asyncNever"
    /\ runState[r] = "pending"

\* The operation the pending check of run r, field f waits on can complete,
\* whatever has become of the run.
CanComplete(r, f) ==
    /\ validations[r][f].k = "pending"
    /\ Awaited(r, f) # "asyncNever"

\* Run r still has a step to take.
Busy(r) ==
    \/ runState[r] = "idle"
    \/ \E f \in Fields :
          \/ CanComplete(r, f)
          \/ reaction[r][f] = "threw"
          \/ reaction[r][f] = "registered" /\ validations[r][f].k \in {"fulfilled", "rejected"}
    \/ handler[r].stage = "registered" /\ runState[r] \in {"resolved", "rejected"}
    \/ handler[r].stage = "onSuccessThrew"

\* The call validator(value) of the function newObjectValidator returned,
\* or the call of the middleware newRequestBodyValidator returned:
\* _validateObject up to the return of its promise, and for the middleware
\* the registration of its two callbacks.  An absent value throws; an absent
\* request.body is replaced by {}.
StartRun(r) ==
    /\ validator = "function"
    /\ runState[r] = "idle"
    /\ overlap \/ \A q \in Runs : q < r => ~Busy(q)
    /\ IF caller.factory = "newObjectValidator" /\ ~caller.value
       THEN /\ runState' = [runState EXCEPT ![r] = "threw"]
            /\ runFault' = [runFault EXCEPT ![r] = Error(<<"Value is required">>)]
            /\ UNCHANGED <<schema, object, validations, index, invoked, reaction, handler>>
       ELSE LET current == IF ~caller.value THEN EmptyObject
                           ELSE IF caller.again /\ r > 1 THEN object[r - 1]
                           ELSE object[r]
                acc0 == [obj |-> current, keys |-> DOMAIN current,
                         v |-> [f \in Fields |-> NoPromise], idx |-> index,
                         tr |-> [f \in Fields |-> <<>>], threw |-> FALSE]
                acc == Launch(r, order[r], acc0)
            IN /\ index' = acc.idx
               /\ schema' = [f \in DOMAIN schema |->
                     [schema[f] EXCEPT !.checks = ValidatorsAfter(@, acc.idx[IndexCell(r, f)])]]
               /\ invoked' = [invoked EXCEPT ![r] = acc.tr]
               /\ validations' = [validations EXCEPT ![r] = acc.v]
               /\ IF acc.threw
                  THEN /\ object' = [object EXCEPT ![r] = acc.obj]
                       /\ runState' = [runState EXCEPT ![r] = "threw"]
                       /\ runFault' = [runFault EXCEPT ![r] = Error(<<"Not implemented">>)]
                       /\ UNCHANGED <<reaction, handler>>
                  ELSE /\ object' = [object EXCEPT ![r] = TrimKeys(acc.obj, acc.keys, config)]
                       /\ runState' = [runState EXCEPT ![r] = "pending"]
                       /\ reaction' = [reaction EXCEPT ![r] =
                             [f \in Fields |-> IF acc.v[f].k # "none" THEN "registered" ELSE "none"]]
                       /\ handler' = IF caller.factory = "newRequestBodyValidator"
                                     THEN [handler EXCEPT ![r].stage = "registered"]
                                     ELSE handler
                       /\ UNCHANGED runFault
    /\ UNCHANGED <<order, config, input, overlap, count, errors, runResult, emitted,
                   caller, builder, validator, contextErrors>>

\* The operation a pending check of run r, field f waits on completes, and
\* the check's continuation runs.
CheckComplete(r, f) ==
    /\ CanComplete(r, f)
    /\ LET c == Continuation(Awaited(r, f), schema[f].checks,
                             index[IndexCell(r, f)], object[r], f, ContextPath(f),
                             invoked[r][f])
       IN /\ object' = [object EXCEPT ![r] = c.obj]
          /\ index' = [index EXCEPT ![IndexCell(r, f)] = c.i]
          /\ schema' = [schema EXCEPT ![f].checks = ValidatorsAfter(@, c.i)]
          /\ invoked' = [invoked EXCEPT ![r][f] = c.tr]
          /\ validations' = [validations EXCEPT ![r][f] = c.x]
    /\ UNCHANGED <<order, config, input, overlap, reaction, count, errors,
                   runState, runResult, runFault, emitted,
                   caller, builder, validator, handler, contextErrors>>

\* The callback of v.then for the fulfilled promise of field f: i++, the
\* entry in errors, and res once i reaches l.  Reading .field of undefined
\* throws after the i++.
ThenCallback(r, f) ==
    /\ reaction[r][f] = "registered"
    /\ validations[r][f].k = "fulfilled"
    /\ LET val == validations[r][f].v
           i == count[r] + 1
           l == Cardinality(Launched(r))
           errs == IF val = True THEN errors[r] ELSE Collect(errors[r], val)
       IN /\ count' = [count EXCEPT ![r] = i]
          /\ IF val.t = "undefined"
             THEN /\ reaction' = [reaction EXCEPT ![r][f] = "threw"]
                  /\ UNCHANGED <<errors, runState, runResult, emitted>>
             ELSE /\ reaction' = [reaction EXCEPT ![r][f] = "ran"]
                  /\ errors' = [errors EXCEPT ![r] = errs]
                  /\ IF AllSettled(i, l)
                     THEN /\ emitted' = [emitted EXCEPT ![r] = @ + 1]
                          /\ IF runState[r] = "pending"
                             THEN /\ runState' = [runState EXCEPT ![r] = "resolved"]
                                  /\ runResult' = [runResult EXCEPT ![r] = ValidationResult(errs)]
                             ELSE UNCHANGED <<runState, runResult>>
                     ELSE UNCHANGED <<runState, runResult, emitted>>
    /\ UNCHANGED <<schema, order, config, input, overlap, object, validations, index,
                   invoked, runFault, caller, builder, validator, handler, contextErrors>>

\* rej called with e: the first settlement of the run's promise stands.
Rej(r, e) ==
    IF runState[r] = "pending"
    THEN /\ runState' = [runState EXCEPT ![r] = "rejected"]
         /\ runFault' = [runFault EXCEPT ![r] = e]
    ELSE UNCHANGED <<runState, runFault>>

\* .catch(rej) for a chain that rejected.
CatchRejection(r, f) ==
    /\ reaction[r][f] = "registered"
    /\ validations[r][f].k = "rejected"
    /\ reaction' = [reaction EXCEPT ![r][f] = "caught"]
    /\ Rej(r, validations[r][f].v)
    /\ UNCHANGED <<schema, order, config, input, overlap, object, validations, index,
                   invoked, count, errors, runResult, emitted,
                   caller, builder, validator, handler, contextErrors>>

\* .catch(rej) for a then callback that threw.
CatchThrown(r, f) ==
    /\ reaction[r][f] = "threw"
    /\ reaction' = [reaction EXCEPT ![r][f] = "caught"]
    /\ Rej(r, Error(<<"TypeError">>))
    /\ UNCHANGED <<schema, order, config, input, overlap, object, validations, index,
                   invoked, count, errors, runResult, emitted,
                   caller, builder, validator, handler, contextErrors>>

\* ------------------------------------------------------------------------
\* Request middleware
\* ------------------------------------------------------------------------

\* What calling a callback the caller passed leaves of the handler: its
\* call counted, its argument kept, and whether it threw.
CallUser(h, threw, behaviour) ==
    [h EXCEPT !.stage = IF behaviour = "throw" THEN threw ELSE "done"]

\* The onSuccess of newRequestBodyValidator when none is passed: next() for
\* a success, res.status(400).json(result.errors) otherwise.
DefaultOnSuccess(h, result) ==
    IF result.success THEN [h EXCEPT !.stage = "done", !.next = 1]
    ELSE [h EXCEPT !.stage = "done", !.status = 400]

\* The onError of newRequestBodyValidator when none is passed.
DefaultOnError(h) == [h EXCEPT !.stage = "done", !.status = 500]

\* .then((result) => { onSuccess(request, response, next, result, context) })
\* for the promise _validateObject returned, once it resolved.
ThenOnSuccess(r) ==
    /\ handler[r].stage = "registered"
    /\ runState[r] = "resolved"
    /\ LET h == [handler[r] EXCEPT !.onSuccess = @ + 1, !.result = runResult[r]]
       IN handler' = [handler EXCEPT ![r] =
              IF caller.onSuccess = "default" THEN DefaultOnSuccess(h, runResult[r])
              ELSE CallUser(h, "onSuccessThrew", caller.onSuccess)]
    /\ UNCHANGED <<schema, order, config, input, overlap, object, validations, index,
                   invoked, reaction, count, errors, runState, runResult, runFault,
                   emitted, caller, builder, validator, contextErrors>>

\* .catch((err) => onError(request, response, next, err, context)), for
\* the promise .then(...) returned: it rejects when the promise of
\* _validateObject rejected, and when the then callback threw.
CatchOnError(r) ==
    /\ \/ handler[r].stage = "registered" /\ runState[r] = "rejected"
       \/ handler[r].stage = "onSuccessThrew"
    /\ LET err == IF handler[r].stage = "onSuccessThrew"
                  THEN Error(<<"thrown by onSuccess">>) ELSE runFault[r]
           h == [handler[r] EXCEPT !.onError = @ + 1, !.error = err]
       IN handler' = [handler EXCEPT ![r] =
              IF caller.onError = "default" THEN DefaultOnError(h)
              ELSE CallUser(h, "onErrorThrew", caller.onError)]
    /\ UNCHANGED <<schema, order, config, input, overlap, object, validations, index,
                   invoked, reaction, count, errors, runState, runResult, runFault,
                   emitted, caller, builder, validator, contextErrors>>

\* ------------------------------------------------------------------------
\* Schemas, inputs and the initial state
\* ------------------------------------------------------------------------

required == Check("required", <<>>, <<>>)
isString(opt) == Check("isString", opt, <<>>)
sameAs(path) == Check("sameAs", path, <<>>)
func(behaviour) == Check("func", <<behaviour>>, <<>>)
custom(behaviour) == Check("custom", <<behaviour>>, <<>>)
regex(pattern) == Check("regex", pattern, <<>>)

\* The lengths password uses when options give none that is positive.
DefaultMinLength == 8
DefaultMaxLength == 32

\* options.minLength && options.minLength > 0 ? options.minLength : 8, for
\* an option given as <<n>> and an absent one as <<>>.
LengthOption(given, default) ==
    IF given # <<>> /\ given[1] > 0 THEN given[1] ELSE default

\* options.req || ['upper', 'lower', 'number', 'special']
ReqOption(options) ==
    IF options.given = "absent" THEN <<"upper", "lower", "number", "special">>
    ELSE options.opt

\* The check password(options) appends: the charsets of req, in its order,
\* and the two lengths.
password(options) ==
    Check("password", ReqOption(options), options.msg)
        @@ [minLength |-> LengthOption(options.minLength, DefaultMinLength),
            maxLength |-> LengthOption(options.maxLength, DefaultMaxLength)]

\* ------------------------------------------------------------------------
\* Fluent builder and factories
\* ------------------------------------------------------------------------

\* One call on the builder: the method, and the options object.  given
\* tells what the option the method needs holds (fnc, pattern, path, req):
\* "absent" (missing, or falsy), "list" (an array) or "value" (anything
\* else); opt holds it (the name for custom), and msg is options.msg.
Call(method, given, opt) ==
    [method |-> method, given |-> given, opt |-> opt, minLength |-> <<>>,
     maxLength |-> <<>>, msg |-> <<>>]

NoCall == Call("none", "absent", <<>>)

\* The names registerCustomValidator was called with: every behaviour of a
\* user check the model knows is registered under its own name.
Registered ==
    {"true", "false", "string", "error", "undefined", "throw", "next"} \cup AsyncBehaviours

\* The names the registry, created as {}, inherits from Object.prototype:
\* this.customValidators[name] finds a function under each of them.  The
\* model keeps one.
Inherited == {"toString"}

\* What custom pushes for an inherited name: the value the inherited
\* function returned for the options (a string for toString), which is
\* no function.
notAFunction(name) == Check("notAFunction", <<name>>, <<>>)

\* custom: what this.customValidators[name] gives to append; nothing when
\* the lookup finds nothing.
customValidator(name) ==
    IF name \in Registered THEN <<custom(name)>>
    ELSE IF name \in Inherited THEN <<notAFunction(name)>>
    ELSE <<>>

\* reqOption(option, msg) returns (the option is truthy).
reqOption(options) == options.given # "absent"

\* A bug HasForEach could have: no test of req at all.
HasForEachAlways(options) == TRUE

\* options.req.forEach is defined, after options.req took its default.
HasForEach(options) == options.given # "value"

\* The builder after one call: the list of checks, and what the call threw
\* (Undefined when it returned this).  A throw comes before the push.
Build(checks, call) ==
    LET throw(m) == [checks |-> checks, threw |-> Error(<<m>>)]
        push(c) == [checks |-> Append(checks, [c EXCEPT !.msg = call.msg]), threw |-> Undefined]
    IN CASE call.method = "func" ->
              IF reqOption(call) THEN push(func(call.opt[1]))
              ELSE throw("validation option fcn is required.")
         [] call.method = "required" -> push(required)
         [] call.method = "isString" -> push(isString(call.opt))
         [] call.method = "regex" ->
              IF reqOption(call) THEN push(regex(call.opt))
              ELSE throw("pattern is required.")
         [] call.method = "password" ->
              IF HasForEach(call) THEN push(password(call))
              ELSE throw("req must be a list")
         [] call.method = "sameAs" ->
              IF reqOption(call) THEN push(sameAs(call.opt))
              ELSE throw("validation field is required.")
         [] call.method = "custom" ->
              [checks |-> checks \o customValidator(call.opt[1]), threw |-> Undefined]

\* The calls a caller makes on checks() in the model.
Calls ==
    { Call("required", "absent", <<>>),
      Call("isString", "absent", <<"trim">>),
      Call("func", "value", <<"false">>),
      Call("func", "absent", <<>>),
      Call("regex", "value", <<"a">>),
      Call("regex", "absent", <<>>),
      Call("sameAs", "value", <<"$", "b">>),
      Call("sameAs", "absent", <<>>),
      Call("password", "absent", <<>>),
      Call("password", "list", <<"lower">>),
      Call("password", "value", <<"upper">>),
      Call("custom", "value", <<"asyncNext">>),
      Call("custom", "value", <<"asyncUndefined">>),
      Call("custom", "value", <<"throw">>),
      Call("custom", "value", <<"missing">>),
      Call("custom", "value", <<"toString">>) }

\* One more call on the builder of field a's chain, before the schema is
\* handed to the factory.
BuilderCall(call) ==
    /\ validator = "none"
    /\ builder.calls < MaxChainLen
    /\ LET b == Build(schema["a"].checks, call)
       IN /\ schema' = [schema EXCEPT !["a"].checks = b.checks]
          /\ builder' = [calls |-> builder.calls + 1, call |-> call,
                         before |-> schema["a"].checks, threw |-> b.threw]
    /\ UNCHANGED <<order, config, input, overlap, object, validations, index, invoked,
                   reaction, count, errors, runState, runResult, runFault, emitted,
                   caller, validator, handler, contextErrors>>

\* newObjectValidator(schema, config), newRequestBodyValidator(schema, ...):
\* a missing schema throws, otherwise the function is returned.
NewValidator ==
    /\ validator = "none"
    /\ validator' = IF caller.schema THEN "function" ELSE "threw"
    /\ UNCHANGED <<schema, order, config, input, overlap, object, validations, index,
                   invoked, reaction, count, errors, runState, runResult, runFault,
                   emitted, caller, builder, handler, contextErrors>>

\* Chains a caller builds with checks(): built-in checks, user functions
\* that answer at once, and user functions that answer later.
SyncChains ==
    { <<>>,
      <<required>>,
      <<isString(<<"trim", "upper">>), required>>,
      <<sameAs(<<"$", "a">>)>>,
      <<func("false")>>,
      <<custom("string")>>,
      <<custom("error")>>,
      <<custom("throw")>>,
      <<required, func("throw")>>,
      <<func("undefined")>>,
      <<isString(<<"trim">>), required, sameAs(<<"extra">>)>> }

AsyncChains ==
    { <<custom("asyncTrue")>>,
      <<custom("asyncString")>>,
      <<func("asyncFalse")>>,
      <<custom("asyncReject")>>,
      <<custom("asyncUndefined")>>,
      <<custom("asyncNever")>>,
      <<custom("asyncNext"), isString(<<"upper">>)>>,
      <<custom("asyncNext"), sameAs(<<"a">>)>>,
      <<func("asyncNext"), required>>,
      <<custom("asyncNext"), custom("error")>>,
      <<custom("asyncNext"), custom("asyncNext"), func("string")>> }

ChainPool == {c \in SyncChains \cup AsyncChains : Len(c) <= MaxChainLen}

Validators(checks) == [type |-> "Validators", checks |-> checks]
FalsyValue == [type |-> "falsy", checks |-> <<>>]
OtherValue == [type |-> "other", checks |-> <<>>]
Absent == [type |-> "absent", checks |-> <<>>]

\* What a schema may hold for a field (Absent: the field is not declared).
SchemaValues == {Validators(c) : c \in ChainPool} \cup {FalsyValue, OtherValue, Absent}

Schemas ==
    { [f \in {g \in Fields : ch[g] # Absent} |-> ch[f]] : ch \in [Fields -> SchemaValues] }

\* The declaration orders of a schema over the fields D.
Orders(D) ==
    {s \in [1..Cardinality(D) -> D] : \A i, j \in 1..Cardinality(D) : s[i] = s[j] => i = j}

Inputs ==
    { [k \in {"a", "b", "extra"} |->
         IF k = "a" THEN JsString(<<"a">>) ELSE IF k = "b" THEN JsString(<<"A">>) ELSE JsNumber("1")],
      [k \in {"a", "b"} |-> IF k = "a" THEN JsString(<<" ", "a">>) ELSE JsString(<<"A">>)],
      [k \in {"a", "extra"} |-> IF k = "a" THEN JsString(<<" ">>) ELSE JsString(<<" ">>)],
      [k \in {"b", "extra"} |-> IF k = "b" THEN JsNumber("1") ELSE JsNull] }

Configs == {"none", "off"}

\* A caller of newObjectValidator that passes a schema and a value.
ObjectCaller ==
    [factory |-> "newObjectValidator", schema |-> TRUE, value |-> TRUE,
     onSuccess |-> "default", onError |-> "default", again |-> FALSE]

\* A caller who hands each run the object the run before it left.
AgainCaller == [ObjectCaller EXCEPT !.again = TRUE]

NoBuilder == [calls |-> 0, call |-> NoCall, before |-> <<>>, threw |-> Undefined]

\* The initial state for a caller of callers, who holds what the factory
\* returned (built) or has yet to build the chain and call the factory.
InitFor(schemas, inputs, configs, overlaps, callers, built) ==
    /\ schema \in schemas
    /\ order \in [Runs -> Orders(DOMAIN schema)]
    /\ config \in configs
    /\ input \in inputs
    /\ overlap \in overlaps
    /\ object = [r \in Runs |-> input]
    /\ validations = [r \in Runs |-> [f \in Fields |-> NoPromise]]
    /\ index = [c \in Runs \X Fields |-> 0]
    /\ invoked = [r \in Runs |-> [f \in Fields |-> <<>>]]
    /\ reaction = [r \in Runs |-> [f \in Fields |-> "none"]]
    /\ count = [r \in Runs |-> 0]
    /\ errors = [r \in Runs |-> NoErrors]
    /\ runState = [r \in Runs |-> "idle"]
    /\ runResult = [r \in Runs |-> NoResult]
    /\ runFault = [r \in Runs |-> Undefined]
    /\ emitted = [r \in Runs |-> 0]
    /\ caller \in callers
    /\ builder = NoBuilder
    /\ validator = IF built THEN "function" ELSE "none"
    /\ handler = [r \in Runs |-> NoHandler]
    /\ contextErrors = [r \in Runs |-> NoErrors]

InitWith(schemas, inputs, configs, overlaps) ==
    InitFor(schemas, inputs, configs, overlaps, {ObjectCaller}, TRUE)

\* Runs one after the other, over every schema and input above.
Init == InitWith(Schemas, Inputs, Configs, {FALSE})

\* One Chain object declared for both fields, in runs that overlap.
SharedChains ==
    {c \in AsyncChains : Len(c) <= MaxChainLen /\ \A i \in 1..Len(c) : c[i].kind # "sameAs"}

SharedSchemas == {[f \in Fields |-> Validators(c)] : c \in SharedChains}

OverlapInputs == {o \in Inputs : DOMAIN o = Keys}

InitOverlap == InitWith(SharedSchemas, OverlapInputs, {"none"}, {TRUE})

Next ==
    \E r \in Runs :
        \/ StartRun(r)
        \/ \E f \in Fields :
              \/ CheckComplete(r, f)
              \/ ThenCallback(r, f)
              \/ CatchRejection(r, f)
              \/ CatchThrown(r, f)

Spec == Init /\ [][Next]_vars

SpecOverlap == InitOverlap /\ [][Next]_vars

\* Requests handled by the middleware of newRequestBodyValidator: chains
\* that pass, fail, reject and suspend, a body present or absent, and
\* callbacks that are the defaults, return, or throw.
RequestChains ==
    { <<>>, <<required>>, <<custom("throw")>>, <<custom("asyncString")>>,
      <<custom("asyncUndefined")>>, <<func("asyncNext"), required>> } \cap ChainPool

RequestSchemas ==
    { [f \in {g \in Fields : ch[g] # Absent} |-> ch[f]] :
        ch \in [Fields -> {Validators(c) : c \in RequestChains} \cup {Absent}] }

RequestInputs == {o \in Inputs : "extra" \in DOMAIN o /\ "a" \in DOMAIN o}

CallbackBehaviours == {"default", "return", "throw"}

RequestCallers ==
    [factory : {"newRequestBodyValidator"}, schema : {TRUE}, value : BOOLEAN,
     onSuccess : CallbackBehaviours, onError : CallbackBehaviours, again : {FALSE}]

InitRequest ==
    InitFor(RequestSchemas, RequestInputs, {"none"}, {FALSE}, RequestCallers, TRUE)

NextRequest ==
    \/ Next
    \/ \E r \in Runs : ThenOnSuccess(r) \/ CatchOnError(r)

SpecRequest == InitRequest /\ [][NextRequest]_vars

\* A caller who builds the chain of the one field a call by call, hands
\* the schema (or nothing) to newObjectValidator and calls what it returns
\* with the value, or with nothing.
BuildSchemas == {[f \in {"a"} |-> Validators(<<>>)]}

BuildInputs == {o \in Inputs : "extra" \in DOMAIN o}

BuildCallers ==
    [factory : {"newObjectValidator"}, schema : BOOLEAN, value : BOOLEAN,
     onSuccess : {"default"}, onError : {"default"}, again : {FALSE}]

InitBuild == InitFor(BuildSchemas, BuildInputs, {"none"}, {FALSE}, BuildCallers, FALSE)

NextBuild ==
    \/ \E call \in Calls : BuilderCall(call)
    \/ NewValidator
    \/ Next

SpecBuild == InitBuild /\ [][NextBuild]_vars

\* The built-in checks one by one and in short chains, over the values a
\* field may hold.
Repeat(c, n) == [k \in 1..n |-> c]

\* The options of password: req absent or a list, the lengths as given.
PasswordOptions(given, req, minLength, maxLength) ==
    [Call("password", given, req) EXCEPT !.minLength = minLength, !.maxLength = maxLength]

PasswordOptionsPool ==
    { PasswordOptions("absent", <<>>, <<>>, <<>>),
      PasswordOptions("list", <<"lower">>, <<2>>, <<4>>),
      PasswordOptions("list", <<"a", "number">>, <<0>>, <<0>>),
      PasswordOptions("list", <<>>, <<-1>>, <<33>>),
      PasswordOptions("list", <<"upper", "special">>, <<4>>, <<>>) }

IsStringOptionsPool ==
    { <<>>, <<"trim">>, <<"upper">>, <<"lower">>, <<"trim", "upper">>, <<"trim", "lower">> }

SameAsPathPool ==
    { <<"b">>, <<"$", "b">>, <<"extra", "x">>, <<"$", "extra", "x">>, <<"extra", "n">>,
      <<"extra", "missing", "x">>, <<"b", "x">>, <<"extra">>, <<"$">>, <<"$", "">> }

CheckChains ==
    { <<required>>,
      <<required, custom("string")>>,
      <<isString(<<"trim">>), required>>,
      <<custom("true"), required>>,
      <<func("true"), custom("string")>>,
      <<custom("asyncTrue"), required>>,
      <<custom("next"), custom("false")>>,
      <<func("next"), required>>,
      <<custom("asyncNext"), required>>,
      <<func("asyncNext"), custom("true")>>,
      <<custom("asyncString"), required>>,
      <<custom("asyncUndefined")>>,
      <<custom("throw")>>,
      <<required, isString(<<"trim", "lower">>), sameAs(<<"b">>)>>,
      <<custom("asyncNext"), custom("true"), required>>,
      <<custom("asyncNext"), func("asyncNext"), required>> }
    \cup {<<isString(opt)>> : opt \in IsStringOptionsPool}
    \cup {<<sameAs(path)>> : path \in SameAsPathPool}
    \cup {<<password(options)>> : options \in PasswordOptionsPool}

CheckSchemas ==
    {[f \in {"a"} |-> Validators(c)] : c \in {d \in CheckChains : Len(d) <= MaxChainLen}}

\* The values of the field a (undefined: the key is missing).
CheckValues ==
    { JsUndefined, JsNull, JsNumber("0"), JsNumber("1"), JsBoolean("false"),
      JsBoolean("true"), JsObject("o"),
      JsString(<<>>), JsString(<<" ">>), JsString(<<" ", "a", "A", " ">>), JsString(<<"A">>),
      JsString(<<"a", "1">>), JsString(<<"A", "a", "1", "#">>),
      JsString(<<"A", "a", "1", "#">> \o Repeat("a", 4)),
      JsString(Repeat("a", 8)),
      JsString(<<"A", " ">> \o Repeat("a", 30)),
      JsString(<<"A", "a", "1", "#">> \o Repeat("a", 29)) }

SiblingValues == {JsUndefined, JsNull, JsString(<<"A">>), JsObject("o")}

\* The object {a: va, b: vb, extra: {x: 'A', n: null}}, without the keys
\* whose value is undefined.
MakeObject(va, vb) ==
    [k \in {"extra"} \cup (IF va.t = "undefined" THEN {} ELSE {"a"})
                      \cup (IF vb.t = "undefined" THEN {} ELSE {"b"}) |->
        IF k = "a" THEN va ELSE IF k = "b" THEN vb ELSE JsObject("o")]

CheckInputs == {MakeObject(va, vb) : va \in CheckValues, vb \in SiblingValues}

\* Chains in which a check that rewrites the field stands before other
\* checks, some of them invoked after a suspension.
MutationChains ==
    { <<isString(<<"trim">>), required>>,
      <<isString(<<"trim", "lower">>), custom("asyncNext"), required>>,
      <<isString(<<"upper">>), func("asyncNext"), sameAs(<<"b">>)>>,
      <<custom("asyncNext"), isString(<<"trim">>), required>>,
      <<isString(<<"trim">>), isString(<<"upper">>), custom("throw")>>,
      <<isString(<<"lower">>), custom("asyncUndefined")>> }

MutationSchemas == {[f \in {"a"} |-> Validators(c)] : c \in MutationChains}

InitMutation == InitFor(MutationSchemas, CheckInputs, Configs, {FALSE}, {ObjectCaller}, TRUE)

SpecMutation == InitMutation /\ [][Next]_vars

\* Chains in which sameAs names a key the schema does not declare, invoked
\* during the launch or after a suspension.
TrimChains ==
    { <<sameAs(<<"extra">>)>>,
      <<sameAs(<<"$", "extra", "x">>)>>,
      <<required, sameAs(<<"b">>)>>,
      <<custom("asyncNext"), sameAs(<<"extra">>)>>,
      <<func("asyncNext"), sameAs(<<"$", "extra", "x">>)>>,
      <<custom("asyncNext"), sameAs(<<"b">>)>>,
      <<sameAs(<<"extra">>), custom("throw")>>,
      <<sameAs(<<"extra", "x">>), custom("asyncUndefined")>> }

TrimSchemas == {[f \in {"a"} |-> Validators(c)] : c \in TrimChains}

InitTrim == InitFor(TrimSchemas, CheckInputs, Configs, {FALSE}, {ObjectCaller}, TRUE)

SpecTrim == InitTrim /\ [][Next]_vars

\* A chain that rejects, at once or later, next to a chain that is
\* suspended and has checks left to run, one of which rewrites its field.
RejectingChains == {<<custom("throw")>>, <<custom("asyncReject")>>}

LastingChains ==
    { <<custom("asyncNext"), isString(<<"upper">>)>>,
      <<func("asyncNext"), required>>,
      <<custom("asyncString")>>,
      <<custom("asyncUndefined")>>,
      <<custom("asyncReject")>> }

RejectSchemas ==
    { [f \in Fields |-> IF f = "a" THEN Validators(c) ELSE Validators(d)] :
        c \in RejectingChains, d \in LastingChains }

InitReject == InitFor(RejectSchemas, OverlapInputs, Configs, {FALSE}, {ObjectCaller}, TRUE)

\* Every operation a check waits on completes, and every reaction to a
\* settled promise runs: the event loop leaves no ready job unrun.
Fairness ==
    \A r \in Runs : \A f \in Fields :
        /\ WF_vars(CheckComplete(r, f))
        /\ WF_vars(ThenCallback(r, f))
        /\ WF_vars(CatchRejection(r, f))
        /\ WF_vars(CatchThrown(r, f))

SpecReject == InitReject /\ [][Next]_vars /\ Fairness

\* Schemas of built-in checks over both fields, validated again and again
\* on the object the run before left.
AgainChains ==
    { <<required>>,
      <<isString(<<"trim", "upper">>), required>>,
      <<isString(<<"lower">>)>>,
      <<sameAs(<<"$", "a">>)>>,
      <<sameAs(<<"b">>)>>,
      <<sameAs(<<"extra">>)>>,
      <<regex(<<"a">>)>>,
      <<password(PasswordOptions("list", <<"lower">>, <<2>>, <<4>>))>> }

AgainSchemas == {[f \in Fields |-> Validators(ch[f])] : ch \in [Fields -> AgainChains]}

AgainInputs ==
    { [k \in Keys |-> IF k = "a" THEN JsString(<<" ", " ", "a">>) ELSE JsString(<<"A">>)],
      [k \in Keys |-> JsString(<<"a">>)],
      [k \in Keys |-> IF k = "a" THEN JsString(<<" ">>) ELSE JsNull],
      [k \in {"a", "extra"} |-> JsString(<<"a", "A">>)] }

InitAgain == InitFor(AgainSchemas, AgainInputs, Configs, {FALSE}, {AgainCaller}, TRUE)

\* Built-in checks return at once and never throw: the chains settle at
\* their launch, with Pass or Fail.
NextAgain ==
    \E r \in Runs :
        \/ StartRun(r)
        \/ \E f \in Fields : ThenCallback(r, f)

SpecAgain == InitAgain /\ [][NextAgain]_vars

InitChecks == InitFor(CheckSchemas, CheckInputs, {"off"}, {FALSE}, {ObjectCaller}, TRUE)

SpecChecks == InitChecks /\ [][Next]_vars

\* ------------------------------------------------------------------------
\* Vocabulary of the properties
\* ------------------------------------------------------------------------

\* The orchestrator call of run r returned its promise.
Returned(r) == runState[r] \in {"pending", "resolved", "rejected"}

Settled(r, f) == validations[r][f].k \in {"fulfilled", "rejected"}

\* The chain of field f in run r settled with Pass, or with a validation
\* failure: the {field, msg} object, or the false or the string a check
\* resolved to.
Passed(r, f) == validations[r][f] = Fulfilled(True)
Failed(r, f) ==
    /\ validations[r][f].k = "fulfilled"
    /\ validations[r][f].v.t \in {"ValError", "false", "string"}

\* The message of the failure Failed(r, f) is about.
FailMessage(r, f) == validations[r][f].v.msg

\* A check of the chain was invoked after a suspension of that chain.
Suspended(r, f) ==
    \E k \in 1..Len(invoked[r][f]) :
        /\ schema[f].checks[invoked[r][f][k].pos].kind \in {"func", "custom"}
        /\ schema[f].checks[invoked[r][f][k].pos].opt[1] \in AsyncBehaviours

\* The last check the chain invoked.
LastInvoked(r, f) == schema[f].checks[invoked[r][f][Len(invoked[r][f])].pos]

\* The fields whose chain reads a property, and those whose chain rewrites
\* its own property.
Reads(f) ==
    {sameAsPath(schema[f].checks[i])[1] :
        i \in {j \in 1..Len(schema[f].checks) : schema[f].checks[j].kind = "sameAs"}}
Rewrites(f) ==
    \E i \in 1..Len(schema[f].checks) :
        /\ schema[f].checks[i].kind = "isString"
        /\ schema[f].checks[i].opt # <<>>

\* No chain reads a property that the chain of another field rewrites.
Independent ==
    \A f, g \in DOMAIN schema : f # g /\ Rewrites(g) => g \notin Reads(f)

\* ------------------------------------------------------------------------
\* Properties
\* ------------------------------------------------------------------------

\* C1: when every chain of a run settled with Pass or Fail, the
\* ValidationResult has success = true and no error map iff no chain failed;
\* otherwise success = false and the error map has exactly one entry per
\* failing field, under that field's name, carrying that field's failure.
C1_AggregateExact ==
    \A r \in Runs :
        (runState[r] = "resolved" /\ \A f \in Launched(r) : Passed(r, f) \/ Failed(r, f))
        => LET failing == {f \in Launched(r) : Failed(r, f)}
           IN /\ runResult[r].success <=> failing = {}
              /\ failing = {} => ~runResult[r].hasErrors
              /\ failing # {} =>
                    /\ runResult[r].hasErrors
                    /\ DOMAIN runResult[r].errors = failing
                    /\ \A f \in failing :
                          runResult[r].errors[f] = ValError(f, FailMessage(r, f))

\* C2: a run that resolved with a ValidationResult has no chain pending.
C2_NoResultWhilePending ==
    \A r \in Runs :
        runState[r] = "resolved" => \A f \in Launched(r) : Settled(r, f)

\* A run resolved although one of its chains was suspended on a pending check.
C2_Witness ==
    \E r \in Runs : \E f \in Fields :
        runState[r] = "resolved" /\ Cardinality(Launched(r)) = 2 /\ Suspended(r, f)

\* C3: once every chain a run launched (zero or more) settled with Pass or
\* Fail and no callback is left to run, the run has emitted a
\* ValidationResult, exactly once.
C3_EmitsExactlyOnce ==
    \A r \in Runs :
        ( /\ Returned(r)
          /\ \A f \in Launched(r) : Passed(r, f) \/ Failed(r, f)
          /\ ~Busy(r) )
        => runState[r] = "resolved" /\ emitted[r] = 1

\* A check of the chain returned an Error value.
ReturnedError(r, f) ==
    /\ invoked[r][f] # <<>>
    /\ LastInvoked(r, f).kind \in {"func", "custom"}
    /\ LastInvoked(r, f).opt[1] = "error"

\* C4: when a chain rejects outright (a check threw, a check returned an
\* Error value, a pending value rejected), the run emits no ValidationResult
\* and no Error is an entry of its error map; once the run's promise settled
\* it is rejected with the fault of such a chain.
C4_FaultRejectsRun ==
    \A r \in Runs :
        (\E f \in Launched(r) : validations[r][f].k = "rejected" \/ ReturnedError(r, f))
        => /\ runState[r] # "resolved"
           /\ \A key \in DOMAIN errors[r] : errors[r][key].t # "Error"
           /\ runState[r] = "rejected" =>
                 \E f \in Launched(r) :
                     \/ validations[r][f] = Rejected(runFault[r])
                     \/ ReturnedError(r, f) /\ runFault[r] = Error(<<"fault">>)

\* C5: what a pending value resolves to is normalized like a synchronous
\* return: true is Pass, false is Fail(field, ''), a string s is
\* Fail(field, s), and the entry is in the error map under the field's name.
C5_PendingNormalized ==
    \A r \in Runs : \A f \in Launched(r) :
        (runState[r] = "resolved" /\ Suspended(r, f))
        => /\ Passed(r, f) => f \notin DOMAIN runResult[r].errors
           /\ Failed(r, f) =>
                 /\ f \in DOMAIN runResult[r].errors
                 /\ runResult[r].errors[f] = ValError(f, FailMessage(r, f))

\* C6 as stated: two schemas with the same field-to-Chain mapping declared
\* in different orders give, on equal objects, the same success value and
\* the same error map.
C6_OrderIrrelevant ==
    \A r, q \in Runs :
        (order[r] # order[q] /\ runState[r] = "resolved" /\ runState[q] = "resolved")
        => runResult[r] = runResult[q]

\* C6 amended: when no chain reads a property that the chain of another
\* field rewrites, declaration order changes neither the success value, nor
\* the keys of the error map, nor the entry under any field's name.
C6_OrderIrrelevantWhenIndependent ==
    \A r, q \in Runs :
        (order[r] # order[q] /\ runState[r] = "resolved" /\ runState[q] = "resolved"
            /\ Independent)
        => /\ runResult[r].success = runResult[q].success
           /\ DOMAIN runResult[r].errors = DOMAIN runResult[q].errors
           /\ \A f \in Fields \cap DOMAIN runResult[r].errors :
                 runResult[r].errors[f] = runResult[q].errors[f]

\* Two runs over independent chains, one of which rewrites its field,
\* declared in different orders, both ended with an error map.
C6_Witness ==
    \E r, q \in Runs :
        /\ order[r] # order[q] /\ runState[r] = "resolved" /\ runState[q] = "resolved"
        /\ Independent
        /\ \E f \in DOMAIN schema : schema[f].type = "Validators" /\ Rewrites(f)
        /\ runResult[r].hasErrors

\* C7 as stated: two runs of one schema on equal objects give the same
\* success value and the same error-map keys, whatever the order in which
\* the pending checks of different fields complete.
C7_Deterministic ==
    \A r, q \in Runs :
        (order[r] = order[q] /\ runState[r] = "resolved" /\ runState[q] = "resolved")
        => /\ runResult[r].success = runResult[q].success
           /\ DOMAIN runResult[r].errors = DOMAIN runResult[q].errors

\* C7 amended: the same, for schemas in which no chain reads a property
\* that the chain of another field rewrites.
C7_DeterministicWhenIndependent ==
    \A r, q \in Runs :
        (order[r] = order[q] /\ runState[r] = "resolved" /\ runState[q] = "resolved"
            /\ Independent)
        => /\ runResult[r].success = runResult[q].success
           /\ DOMAIN runResult[r].errors = DOMAIN runResult[q].errors

\* Two runs of one schema whose two chains were both suspended, a chain
\* rewriting its field, ended with an error map.
C7_Witness ==
    \E r, q \in Runs :
        /\ r # q /\ order[r] = order[q]
        /\ runState[r] = "resolved" /\ runState[q] = "resolved"
        /\ Independent
        /\ \A f \in Fields : Suspended(r, f) /\ Suspended(q, f)
        /\ \E f \in Fields : Rewrites(f)
        /\ runResult[r].hasErrors

\* C8: with trimming on (the default without a config), once the
\* orchestrator call returned, the object holds exactly the input's keys
\* that are schema keys, whatever the chains do later; with trimming off no
\* key is ever deleted.
C8_TrimAtReturn ==
    \A r \in Runs :
        /\ (Returned(r) /\ TrimBody(config)) =>
              DOMAIN object[r] = DOMAIN input \cap DOMAIN schema
        /\ ~TrimBody(config) => DOMAIN object[r] = DOMAIN input

\* A run with trimming on whose input held an undeclared key and a
\* declared one, and one of whose chains rejected.
C8_Witness ==
    \E r \in Runs : \E f \in Fields :
        /\ Returned(r) /\ TrimBody(config)
        /\ "extra" \in DOMAIN input /\ f \in DOMAIN input
        /\ validations[r][f].k = "rejected"

\* The chain's last check threw when invoked, before any suspension.
ThrewSync(r, f) ==
    /\ invoked[r][f] # <<>>
    /\ ~Suspended(r, f)
    /\ \/ LastInvoked(r, f).kind \in {"func", "custom"} /\ LastInvoked(r, f).opt[1] = "throw"
       \/ LastInvoked(r, f).kind = "func" /\ LastInvoked(r, f).opt[1] = "undefined"

\* The exception that check throws: its own, or valResultToPromise's for the
\* undefined its function returned.
Thrown(c) == IF c.opt[1] = "throw" THEN Error(<<"thrown">>) ELSE NotImplemented("undefined")

\* C9: when a check throws as it is invoked (first, or later through
\* synchronous next() calls), validate returns a promise, rejected with the
\* exception thrown.
C9_ThrowBecomesRejection ==
    \A r \in Runs : \A f \in DOMAIN schema :
        ThrewSync(r, f) =>
            /\ f \in Launched(r)
            /\ validations[r][f] = Rejected(Thrown(LastInvoked(r, f)))

\* A chain whose second check threw, reached through next().
C9_Witness ==
    \E r \in Runs : \E f \in DOMAIN schema :
        /\ ThrewSync(r, f)
        /\ Len(invoked[r][f]) = 2
        /\ LastInvoked(r, f).opt[1] = "throw"

\* One invocation of the chain run alone to its end: validate, then each
\* pending check completing in turn.
RECURSIVE Drive(_, _, _)
Drive(validators, field, c) ==
    IF c.x.k = "pending" /\ c.x.v.msg[1] # "asyncNever"
    THEN Drive(validators, field,
               Continuation(c.x.v.msg[1], validators, c.i, c.obj, field,
                            ContextPath(field), c.tr))
    ELSE c

Alone(f) == Drive(schema[f].checks, f, validate(schema[f].checks, input, f, ContextPath(f)))

\* C10: every invocation of a Chain object shared by fields and by
\* overlapping runs keeps its own index: it invokes the checks from the
\* first, in order, for its own field, and it settles as it would alone.
C10_OwnIndex ==
    \A r \in Runs : \A f \in Launched(r) :
        /\ \A k \in 1..Len(invoked[r][f]) :
              invoked[r][f][k].pos = k /\ invoked[r][f][k].field = f
        /\ Settled(r, f) =>
              /\ validations[r][f] = Alone(f).x
              /\ invoked[r][f] = Alone(f).tr

\* An invocation of the shared chain ran its second check while the
\* invocation of another run for the same field was suspended on the first.
C10_Witness ==
    \E r, q \in Runs : \E f \in Fields :
        /\ r # q
        /\ schema["a"] = schema["b"]
        /\ Len(invoked[r][f]) = 2 /\ Settled(r, f)
        /\ Len(invoked[q][f]) = 1 /\ validations[q][f].k = "pending"

\* The middleware handled the request of run r: it registered its callbacks.
Handled(r) == handler[r].stage # "none"

\* The callbacks of run r have nothing left to do.
HandlerDone(r) == handler[r].stage \in {"done", "onErrorThrew"}

\* C11: for a request the middleware handled, onSuccess and onError are
\* never both invoked and none is invoked twice; once the run resolved and
\* the callbacks are done, onSuccess alone was invoked, once, with the
\* ValidationResult; once it rejected, onError alone, once, with the fault;
\* whether the callback invoked returned or threw.
C11_ExactlyOneCallback ==
    \A r \in Runs :
        Handled(r) =>
            /\ handler[r].onSuccess + handler[r].onError <= 1
            /\ (runState[r] = "resolved" /\ HandlerDone(r)) =>
                  /\ handler[r].onSuccess = 1 /\ handler[r].onError = 0
                  /\ handler[r].result = runResult[r]
            /\ (runState[r] = "rejected" /\ HandlerDone(r)) =>
                  /\ handler[r].onError = 1 /\ handler[r].onSuccess = 0
                  /\ handler[r].error = runFault[r]

\* The chain of field f in run r waits on a pending value that never settles.
NeverSettles(r, f) ==
    /\ validations[r][f].k = "pending"
    /\ Awaited(r, f) = "asyncNever"

\* C12 as stated: a run one of whose chains waits on a pending value that
\* never settles neither resolves nor rejects, whatever the other chains do.
C12_NeverCompletes ==
    \A r \in Runs :
        (\E f \in Fields : NeverSettles(r, f)) => runState[r] \notin {"resolved", "rejected"}

\* C12 amended: such a run never resolves with a ValidationResult, and it
\* rejects only through another chain: one that rejected, or one whose
\* aggregation callback threw.
C12_NeverResolves ==
    \A r \in Runs :
        (\E f \in Fields : NeverSettles(r, f)) =>
            /\ runState[r] # "resolved"
            /\ emitted[r] = 0
            /\ runState[r] = "rejected" => \E g \in Fields : reaction[r][g] = "caught"

\* A run that stays pending with nothing left to do: one chain never
\* settles, the other settled and its aggregation callback ran.
C12_Witness ==
    \E r \in Runs : \E f, g \in Fields :
        /\ NeverSettles(r, f)
        /\ reaction[r][g] = "ran"
        /\ runState[r] = "pending"
        /\ ~Busy(r)

\* The last call on the builder lacks the option its method needs: func
\* without fnc, regex without pattern, sameAs without path, password with a
\* req that is no list.
ConfigError(call) ==
    \/ call.method \in {"func", "regex", "sameAs"} /\ call.given = "absent"
    \/ call.method = "password" /\ call.given = "value"

CheckAt(r, f, k) == schema[f].checks[invoked[r][f][k].pos]
ValueAt(r, f, k) == invoked[r][f][k].value

\* The check invoked k-th called proceed: the next check was invoked, or
\* there was none left and the chain passed.
Proceeded(r, f, k) ==
    \/ k < Len(invoked[r][f])
    \/ k = Len(schema[f].checks) /\ Passed(r, f)

\* The check invoked k-th ended the chain with the message msg.
FailedAt(r, f, k, msg) ==
    /\ k = Len(invoked[r][f])
    /\ Failed(r, f)
    /\ FailMessage(r, f) = msg

\* The chains of run r, with a place in each.
Places(r) ==
    {p \in Launched(r) \X (1..MaxChainLen) :
        p[1] \in DOMAIN schema /\ p[2] <= Len(invoked[r][p[1]])}

\* C14: required fails, with its message and without calling proceed, iff
\* the value is null, undefined or the empty string; for every other value
\* (0, false, a non-empty string, an object) it calls proceed.
C14_Required ==
    \A r \in Runs : \A p \in Places(r) :
        LET f == p[1]
            k == p[2]
            value == ValueAt(r, f, k)
        IN CheckAt(r, f, k).kind = "required" =>
              IF value \in {JsNull, JsUndefined, JsString(<<>>)}
              THEN FailedAt(r, f, k, <<f, " is required">>) /\ ~Proceeded(r, f, k)
              ELSE Proceeded(r, f, k)

\* required was invoked with 0 or false and called proceed, and with the
\* empty string in another run of the model.
C14_Witness ==
    \E r \in Runs : \E p \in Places(r) :
        /\ CheckAt(r, p[1], p[2]).kind = "required"
        /\ ValueAt(r, p[1], p[2]) \in {JsNumber("0"), JsBoolean("false")}
        /\ Proceeded(r, p[1], p[2])
        /\ Len(schema[p[1]].checks) = 1

\* What current[field] holds once the check invoked k-th returned: what the
\* next check of the chain was invoked with, or what the object holds.
After(r, f, k) ==
    IF k < Len(invoked[r][f]) THEN ValueAt(r, f, k + 1) ELSE Get(object[r], f)

\* C15: isString proceeds on null and undefined and leaves the object as it
\* is; on a string it writes back the value trimmed (when trim is asked for)
\* and then folded to upper or lower case (when asked for) and proceeds; on
\* any other value it fails with its message, does not proceed and leaves
\* the object as it is.  No other key of the object changes.
C15_IsString ==
    \A r \in Runs : \A p \in Places(r) :
        LET f == p[1]
            k == p[2]
            value == ValueAt(r, f, k)
            options == CheckAt(r, f, k).opt
            trimmed == IF InSeq("trim", options) THEN Trim(value.s) ELSE value.s
            folded == IF InSeq("upper", options) THEN ToUpperCase(trimmed)
                      ELSE IF InSeq("lower", options) THEN ToLowerCase(trimmed)
                      ELSE trimmed
        IN CheckAt(r, f, k).kind = "isString" =>
              /\ DOMAIN object[r] = DOMAIN input
              /\ \A key \in DOMAIN input \ {f} : object[r][key] = input[key]
              /\ CASE value.t \in {"null", "undefined"} ->
                        Proceeded(r, f, k) /\ After(r, f, k) = value
                   [] value.t = "string" ->
                        Proceeded(r, f, k) /\ After(r, f, k) = JsString(folded)
                   [] OTHER ->
                        /\ FailedAt(r, f, k, <<f, " must be a string.">>)
                        /\ ~Proceeded(r, f, k)
                        /\ Get(object[r], f) = value

\* isString({trim: true, case: 'lower'}) was invoked with ' aA ' and the
\* object holds 'aa'.
C15_Witness ==
    \E r \in Runs : \E p \in Places(r) :
        /\ CheckAt(r, p[1], p[2]) = isString(<<"trim", "lower">>)
        /\ ValueAt(r, p[1], p[2]) = JsString(<<" ", "a", "A", " ">>)
        /\ Proceeded(r, p[1], p[2])
        /\ Get(object[r], p[1]) = JsString(<<"a", "a">>)

\* The value a path of sameAs leads to from the value v its first segment
\* read, following the segments left: null as soon as a segment is missing
\* or null.
RECURSIVE Follow(_, _)
Follow(v, segments) ==
    IF v \in {JsUndefined, JsNull} THEN JsNull
    ELSE IF segments = <<>> THEN v
    ELSE Follow(IF v.t = "object" /\ Head(segments) \in DOMAIN Nested(v.s[1])
                THEN Nested(v.s[1])[Head(segments)] ELSE JsUndefined,
                Tail(segments))

\* The target of the path given to sameAs, in the object o: the segments
\* after a leading "$/", followed from o (root and current are both o).
Target(path, o) ==
    LET segments == IF path[1] = "$" /\ Len(path) > 1 THEN SubSeq(path, 2, Len(path)) ELSE path
    IN Follow(IF segments[1] \in DOMAIN o THEN o[segments[1]] ELSE JsUndefined,
              SubSeq(segments, 2, Len(segments)))

\* C16: sameAs proceeds iff the target of its path strictly equals the
\* field's value, or the value is null or undefined and the target is null;
\* otherwise it fails with its 'is not same as' message and does not
\* proceed.
C16_SameAs ==
    \A r \in Runs : \A p \in Places(r) :
        LET f == p[1]
            k == p[2]
            value == ValueAt(r, f, k)
            path == CheckAt(r, f, k).opt
            target == Target(path, object[r])
        IN CheckAt(r, f, k).kind = "sameAs" =>
              IF value = target \/ (value \in {JsNull, JsUndefined} /\ target = JsNull)
              THEN Proceeded(r, f, k)
              ELSE /\ FailedAt(r, f, k, <<f, " is not same as ">> \o path)
                   /\ ~Proceeded(r, f, k)

\* sameAs({path: '$/extra/x'}) was invoked with the string the nested
\* object holds under x, and proceeded.
C16_Witness ==
    \E r \in Runs : \E p \in Places(r) :
        /\ CheckAt(r, p[1], p[2]) = sameAs(<<"$", "extra", "x">>)
        /\ ValueAt(r, p[1], p[2]) = JsString(<<"A">>)
        /\ Proceeded(r, p[1], p[2])

\* The string s holds a character of the class an entry of req names; an
\* entry that is no keyword is one character, looked for in either case.
HasClass(entry, s) ==
    \E k \in 1..Len(s) :
        CASE entry = "upper" -> s[k] = "A"
          [] entry = "lower" -> s[k] = "a"
          [] entry = "number" -> s[k] \in {"0", "1"}
          [] entry = "special" -> s[k] \in {" ", "#"}
          [] OTHER -> LowerChar(s[k]) = LowerChar(entry)

\* The value is a password under the options: a string, of a length
\* between the given bounds (8 and 32 for a bound absent or not positive),
\* holding a character of every class of req (all four for an absent req).
IsPassword(options, value) ==
    LET lo == IF options.minLength = <<>> \/ options.minLength[1] <= 0
              THEN 8 ELSE options.minLength[1]
        hi == IF options.maxLength = <<>> \/ options.maxLength[1] <= 0
              THEN 32 ELSE options.maxLength[1]
        req == IF options.given = "absent"
               THEN {"upper", "lower", "number", "special"}
               ELSE {options.opt[k] : k \in 1..Len(options.opt)}
    IN /\ value.t = "string"
       /\ lo <= Len(value.s) /\ Len(value.s) <= hi
       /\ \A entry \in req : HasClass(entry, value.s)

\* C17: password proceeds iff the value is a string whose length lies in
\* [minLength, maxLength] (8 and 32 when the bound is absent or not
\* positive) and which holds a character of every class of req; otherwise
\* it fails with its message and does not proceed.
C17_Password ==
    \A r \in Runs : \A p \in Places(r) : \A options \in PasswordOptionsPool :
        LET f == p[1]
            k == p[2]
        IN CheckAt(r, f, k) = password(options) =>
              IF IsPassword(options, ValueAt(r, f, k))
              THEN Proceeded(r, f, k)
              ELSE /\ FailedAt(r, f, k, <<f, " is invalid.">>)
                   /\ ~Proceeded(r, f, k)

\* password() with no options was invoked with 'Aa1#aaaa' and proceeded.
C17_Witness ==
    \E r \in Runs : \E p \in Places(r) :
        /\ CheckAt(r, p[1], p[2]) = password(PasswordOptions("absent", <<>>, <<>>, <<>>))
        /\ ValueAt(r, p[1], p[2]) = JsString(<<"A", "a", "1", "#">> \o Repeat("a", 4))
        /\ Proceeded(r, p[1], p[2])

\* The last call on the builder was custom with a name nobody registered.
MissingCustom == builder.call.method = "custom" /\ builder.call.opt[1] \notin Registered

\* The chain built before the last call, run to its end on the caller's
\* object as the chain of field a: validate, the removal of the keys the
\* schema does not name, then each pending check completing in turn.
Without ==
    LET c == validate(builder.before, input, "a", ContextPath("a"))
    IN Drive(builder.before, "a",
             [c EXCEPT !.obj = TrimKeys(c.obj, DOMAIN c.obj \ {"a"}, config)])

\* C18: custom(name) with a name nobody registered throws nothing and
\* appends no check: the list is the one before the call, and every run of
\* the chain invokes the checks, and settles, as the chain built without
\* the call does; no run throws but for a missing value.
C18_MissingCustomIsNoOp ==
    MissingCustom =>
        /\ builder.threw = Undefined
        /\ schema["a"].checks = builder.before
        /\ \A r \in Runs :
              /\ runState[r] = "threw" => ~caller.value
              /\ Settled(r, "a") =>
                    /\ validations[r]["a"] = Without.x
                    /\ invoked[r]["a"] = Without.tr

\* The check invoked k-th is one that calls proceed on the value it got.
CallsProceed(r, f, k) ==
    LET c == CheckAt(r, f, k)
        value == ValueAt(r, f, k)
        target == Target(c.opt, object[r])
    IN CASE c.kind = "required" -> value \notin {JsNull, JsUndefined, JsString(<<>>)}
         [] c.kind = "isString" -> value.t \in {"undefined", "null", "string"}
         [] c.kind = "sameAs" ->
              value = target \/ (value \in {JsNull, JsUndefined} /\ target = JsNull)
         [] c.kind = "password" ->
              \E options \in PasswordOptionsPool :
                  password(options) = c /\ IsPassword(options, value)
         [] c.kind \in {"func", "custom"} -> c.opt[1] \in {"next", "asyncNext"}
         [] OTHER -> FALSE

\* The check invoked k-th returns a terminal failure, at once or when its
\* operation completes, without calling proceed.
ReturnsFailure(r, f, k) ==
    LET c == CheckAt(r, f, k)
    IN \/ c.kind \in {"required", "isString", "sameAs", "password"} /\ ~CallsProceed(r, f, k)
       \/ c.kind \in {"func", "custom"}
            /\ c.opt[1] \in {"false", "string", "asyncFalse", "asyncString"}

\* C19: one invocation of a chain invokes the checks in declared order,
\* each at most once, and a check only after every check before it called
\* proceed; once a check returned a terminal failure the chain invokes no
\* check after it and settles as that failure; when every check called
\* proceed, every check was invoked and the chain settles as Pass.
C19_InOrder ==
    \A r \in Runs : \A f \in Launched(r) :
        LET n == Len(invoked[r][f])
        IN f \in DOMAIN schema =>
              /\ n <= Len(schema[f].checks)
              /\ \A k \in 1..n : invoked[r][f][k].pos = k
              /\ \A k \in 1..n : k < n => CallsProceed(r, f, k)
              /\ \A k \in 1..n :
                    (ReturnsFailure(r, f, k) /\ Settled(r, f)) => k = n /\ Failed(r, f)
              /\ (Settled(r, f) /\ \A k \in 1..n : CallsProceed(r, f, k)) =>
                    n = Len(schema[f].checks) /\ Passed(r, f)

\* A chain whose first check called proceed and whose second, required,
\* failed on the empty string.
C19_Witness ==
    \E r \in Runs :
        /\ Len(invoked[r]["a"]) = 2
        /\ CheckAt(r, "a", 1) = func("next")
        /\ CheckAt(r, "a", 2) = required
        /\ Failed(r, "a")
        /\ FailMessage(r, "a") = <<"a", " is required">>

\* The check invoked k-th is a user check that returns true, at once or
\* when its operation completes, without calling proceed.
ReturnsTrue(r, f, k) ==
    /\ CheckAt(r, f, k).kind \in {"func", "custom"}
    /\ CheckAt(r, f, k).opt[1] \in {"true", "asyncTrue"}

\* C20: a check that returns true without calling proceed ends the chain
\* with Pass wherever it stands: no check after it is invoked, and the
\* chain passes at once (when its operation completes, for a check that
\* answers later); it never fails and is never rejected.
C20_TrueEndsChain ==
    \A r \in Runs : \A f \in Launched(r) :
        f \in DOMAIN schema =>
            \A k \in 1..Len(invoked[r][f]) :
                ReturnsTrue(r, f, k) =>
                    /\ k = Len(invoked[r][f])
                    /\ IF CheckAt(r, f, k).opt[1] = "true" THEN Passed(r, f)
                       ELSE Passed(r, f) \/ validations[r][f].k = "pending"

\* custom('true') stood before required, the field held the empty string,
\* and the chain passed with required never invoked.
C20_Witness ==
    \E r \in Runs :
        /\ schema["a"].checks = <<custom("true"), required>>
        /\ Get(input, "a") = JsString(<<>>)
        /\ Len(invoked[r]["a"]) = 1
        /\ Passed(r, "a")

\* What current[field] holds once the check c, invoked with v, returned:
\* isString writes back a non-empty string, trimmed and folded as its
\* options ask; no other check writes.
Written(c, v) ==
    IF c.kind = "isString" /\ v.t = "string" /\ v.s # <<>>
    THEN LET trimmed == IF InSeq("trim", c.opt) THEN Trim(v.s) ELSE v.s
         IN JsString(IF InSeq("upper", c.opt) THEN ToUpperCase(trimmed)
                     ELSE IF InSeq("lower", c.opt) THEN ToLowerCase(trimmed)
                     ELSE trimmed)
    ELSE v

\* C21: every check is given what current[field] holds when it is invoked:
\* the first check the value of the object handed in, every later check
\* the value the check before it left, whether it is invoked at once or
\* after a suspension.
C21_ValueReadAtInvocation ==
    \A r \in Runs : \A f \in Launched(r) :
        f \in DOMAIN schema =>
            \A k \in 1..Len(invoked[r][f]) :
                ValueAt(r, f, k) =
                    IF k = 1 THEN Get(input, f)
                    ELSE Written(CheckAt(r, f, k - 1), ValueAt(r, f, k - 1))

\* After a suspension, isString({trim: true}) turned ' ' into '' and the
\* required after it was given '' and failed.
C21_Witness ==
    \E r \in Runs :
        /\ schema["a"].checks = <<custom("asyncNext"), isString(<<"trim">>), required>>
        /\ Get(input, "a") = JsString(<<" ">>)
        /\ Len(invoked[r]["a"]) = 3
        /\ ValueAt(r, "a", 3) = JsString(<<>>)
        /\ Failed(r, "a")
        /\ FailMessage(r, "a") = <<"a", " is required">>

\* The fields of the schema that hold a chain.
Chained == {f \in DOMAIN schema : schema[f].type = "Validators"}

\* C22: when the orchestrator has returned its promise, and so before any
\* outcome is awaited, the chain of every declared field was launched and
\* its first check invoked, whatever the chains of the other fields are
\* suspended on; before the run starts no check was invoked.
C22_AllChainsLaunched ==
    \A r \in Runs :
        /\ Returned(r) =>
              \A f \in Chained :
                  /\ validations[r][f] # NoPromise
                  /\ schema[f].checks # <<>> =>
                        Len(invoked[r][f]) >= 1 /\ invoked[r][f][1].pos = 1
        /\ runState[r] = "idle" =>
              \A f \in Fields : validations[r][f] = NoPromise /\ invoked[r][f] = <<>>

\* No outcome was taken yet, the chain of the field declared first is
\* suspended on its first check, and the first check of the field declared
\* after it was invoked.
C22_Witness ==
    \E r \in Runs :
        /\ Chained = {"a", "b"}
        /\ count[r] = 0 /\ runState[r] = "pending"
        /\ validations[r][order[r][1]].k = "pending"
        /\ Len(invoked[r][order[r][1]]) = 1
        /\ Len(invoked[r][order[r][2]]) >= 1

\* The last check the chain invoked returned undefined, at once or as the
\* resolution of its pending value.
ReturnedOther(r, f) ==
    /\ invoked[r][f] # <<>>
    /\ LastInvoked(r, f).kind \in {"func", "custom"}
    /\ \/ LastInvoked(r, f).opt[1] = "undefined"
       \/ LastInvoked(r, f).opt[1] = "asyncUndefined" /\ validations[r][f].k # "pending"

\* C23: a check's return value that is no boolean, string, error or
\* pending value is never taken for a Pass or a Fail: the chain neither
\* passes nor fails, the run emits no ValidationResult, and once its
\* reactions have run the run is rejected.
C23_NoCoercion ==
    \A r \in Runs : \A f \in Launched(r) :
        ReturnedOther(r, f) =>
            /\ ~Passed(r, f) /\ ~Failed(r, f)
            /\ runState[r] # "resolved"
            /\ (Returned(r) /\ ~Busy(r)) => runState[r] = "rejected"

\* C24: once a run resolved, the errors of its Context hold the error map
\* of the ValidationResult: one entry per failing field when success is
\* false, none when it is true.
C24_ContextErrors ==
    \A r \in Runs :
        runState[r] = "resolved" => contextErrors[r] = runResult[r].errors

\* C25: no step of a validation run, whatever the other runs are doing
\* and whatever its outcome, changes the schema: neither what a field is
\* declared with nor the list of checks of a chain, nor the order of the
\* declarations.
C25_SchemaUntouched == [][schema' = schema /\ order' = order]_vars

\* Every run over a shared chain of two checks has resolved, after each of
\* its invocations of the chain invoked both checks.
C25_Witness ==
    \A r \in Runs :
        /\ runState[r] = "resolved"
        /\ \A f \in Fields : Len(invoked[r][f]) = 2

\* The check invoked k-th was invoked after a suspension of its chain.
AfterSuspension(r, f, k) ==
    \E j \in 1..(k - 1) :
        /\ CheckAt(r, f, j).kind \in {"func", "custom"}
        /\ CheckAt(r, f, j).opt[1] \in AsyncBehaviours

\* The input without the keys the schema does not declare.
Declared == [key \in DOMAIN input \cap DOMAIN schema |-> input[key]]

\* C26: a sameAs invoked during the launch of its chain reads its path in
\* the object with the undeclared keys still there; with trimming on, one
\* invoked after a suspension reads it in the object without them (null
\* for a path that names an undeclared key); with trimming off it reads
\* the keys there too.  It proceeds or fails by what it read.
C26_TrimBetweenSyncAndAsync ==
    \A r \in Runs : \A f \in Launched(r) :
        f \in DOMAIN schema =>
            \A k \in 1..Len(invoked[r][f]) :
                LET value == ValueAt(r, f, k)
                    path == CheckAt(r, f, k).opt
                    seen == IF AfterSuspension(r, f, k) /\ TrimBody(config)
                            THEN Put(Declared, f, value) ELSE Put(input, f, value)
                    target == Target(path, seen)
                IN CheckAt(r, f, k).kind = "sameAs" =>
                      IF value = target \/ (value \in {JsNull, JsUndefined} /\ target = JsNull)
                      THEN Proceeded(r, f, k)
                      ELSE /\ FailedAt(r, f, k, <<f, " is not same as ">> \o path)
                           /\ ~Proceeded(r, f, k)

\* With trimming on and the field equal to the undeclared key's value, a
\* sameAs naming that key was invoked after a suspension and failed, the
\* key being gone.
C26_Witness ==
    \E r \in Runs :
        /\ TrimBody(config)
        /\ schema["a"].checks = <<custom("asyncNext"), sameAs(<<"extra">>)>>
        /\ Get(input, "a") = Get(input, "extra")
        /\ Len(invoked[r]["a"]) = 2
        /\ Failed(r, "a")
        /\ FailMessage(r, "a") = <<"a", " is not same as ", "extra">>

\* The run has settled.
RunSettled(r) == runState[r] \in {"resolved", "rejected"}

\* C27: the run is rejected when the reaction to the first rejected chain
\* runs, whether or not the sibling chains have settled; a settled run
\* keeps its state, its result and its fault whatever happens later; and a
\* chain still pending when the run was rejected goes on to settle, and a
\* rejected chain leads to a rejected run.
C27_RejectsEarlyKeepsRunning ==
    /\ [](\A r \in Runs : \A f \in Fields :
            (validations[r][f].k = "rejected" /\ reaction[r][f] = "caught")
                => runState[r] = "rejected")
    /\ [][\A r \in Runs :
            RunSettled(r) => /\ runState'[r] = runState[r]
                             /\ runResult'[r] = runResult[r]
                             /\ runFault'[r] = runFault[r]]_vars
    /\ \A r \in Runs : \A f \in Fields :
          /\ (runState[r] = "rejected" /\ validations[r][f].k = "pending") ~> Settled(r, f)
          /\ (validations[r][f].k = "rejected") ~> (runState[r] = "rejected")

\* The run was rejected while the chain of the other field, which has a
\* check left that rewrites the field, is still suspended.
C27_Witness ==
    \E r \in Runs :
        /\ runState[r] = "rejected"
        /\ validations[r]["b"].k = "pending"
        /\ schema["b"].checks = <<custom("asyncNext"), isString(<<"upper">>)>>
        /\ Len(invoked[r]["b"]) = 1

ReadsDeclared ==
    TrimBody(config) => \A f \in DOMAIN schema : Reads(f) \subseteq DOMAIN schema

DeclaredFalsy == {f \in DOMAIN schema : schema[f].type = "falsy"}

\* C29: a field declared with a falsy value launches no chain and has no
\* check invoked; its key is never deleted from the object, with trimming
\* on or off; and a run that resolves does so when the chains of the other
\* fields have all been counted, with no entry under that field's name.
C29_FalsyKeyDeclared ==
    \A r \in Runs : \A f \in DeclaredFalsy :
        /\ validations[r][f] = NoPromise
        /\ invoked[r][f] = <<>>
        /\ reaction[r][f] = "none"
        /\ f \in DOMAIN input => f \in DOMAIN object[r] /\ object[r][f] = input[f]
        /\ runState[r] = "resolved" =>
              /\ f \notin DOMAIN runResult[r].errors
              /\ count[r] = Cardinality(Chained)
              /\ \A g \in Chained : reaction[r][g] \in {"ran", "threw", "caught"}

\* With trimming on, a run over a schema that declares one field with a
\* falsy value resolved with an error of the other field, and the object
\* still holds the key of the first while an undeclared key is gone.
C29_Witness ==
    \E r \in Runs : \E f \in DeclaredFalsy :
        /\ TrimBody(config)
        /\ f \in DOMAIN input /\ f \in DOMAIN object[r]
        /\ "extra" \in DOMAIN input /\ "extra" \notin DOMAIN object[r]
        /\ runState[r] = "resolved"
        /\ runResult[r].hasErrors

====
